---- MODULE Spec2Model ----
(***************************************************************************)
(* Model of discord_biggify_bot: the image core (biggify_image.py) and the *)
(* two slash-command handlers (bot.py).                                    *)
(*                                                                         *)
(* Rasters are modelled by their dimensions and format, never by pixels.   *)
(* Real-valued factors are exact rationals num/den; the inputs used are    *)
(* dyadic, so Python's float product n * f is exact and int() is the       *)
(* truncation computed by Trunc.  height / rows is not dyadic in general:  *)
(* for every height and row count of this model int(k * (height / rows))   *)
(* in IEEE doubles equals the exact floor computed here.                   *)
(***************************************************************************)
EXTENDS Integers, Sequences, FiniteSets, TLC

\* ------------------------------------------------------------------ bounds
MaxDim == 3
MaxRows == 4
MaxMerge == 3

\* ------------------------------------------------------- rational factors
Factor(n, d) == [num |-> n, den |-> d]

Leq(f, g) == f.num * g.den <= g.num * f.den

IsOne(f) == f.num = f.den

TruncUp(n, f) == (n * f.num + f.den - 1) \div f.den

\* int(n * f) for n >= 0 and f > 0
Trunc(n, f) == (n * f.num) \div f.den

\* round(n * f), Python 3: nearest integer, ties to even
Round(n, f) ==
    LET q == (n * f.num) \div f.den
        rem2 == 2 * ((n * f.num) % f.den)
    IN  IF rem2 < f.den THEN q
        ELSE IF rem2 > f.den THEN q + 1
        ELSE IF q % 2 = 0 THEN q ELSE q + 1

StretchMin == Factor(1, 1)
StretchMax == Factor(3, 1)
ScaleMin == Factor(1, 2)
ScaleMax == Factor(4, 1)

\* ------------------------------------------------------------ input sets
Widths == (1..MaxDim) \cup {100}
Heights == (1..MaxDim) \cup {101}
Formats == {"PNG", "JPEG"}
RowsInputs == (-1)..MaxRows
StretchInputs == {Factor(1, 2), Factor(1, 1), Factor(5, 4), Factor(3, 2),
                  Factor(3, 1), Factor(5, 1)}
ScaleInputs == {Factor(1, 4), Factor(1, 2), Factor(1, 1), Factor(2, 1),
                Factor(4, 1), Factor(17, 4)}

\* bytes that Image.open cannot decode
Undecodable == [ok |-> FALSE, width |-> 0, height |-> 0, format |-> "NONE"]

Decodable(w, h, f) == [ok |-> TRUE, width |-> w, height |-> h, format |-> f]

ImageInputs ==
    {Undecodable} \cup {Decodable(w, h, f) : w \in Widths, h \in Heights, f \in Formats}

NoImage == Undecodable

NoStrip == [width |-> 0, height |-> 0, top |-> 0, bottom |-> 0]

VARIABLES
    caller,               \* who called the core: "direct" or "bot"
    pc,                   \* position inside biggify_image
    image_bytes, rows, stretch_factor, output_scale_factor,
    original_img, current_width, current_height,
    r, cropped_strip, cropped_images,
    boxes,                \* crop boxes computed so far, in loop order
    result,               \* the value returned by biggify_image
    ops,                  \* library calls attempted by this call, in order
    msg,                  \* which error line was printed
    raised,               \* the except clause ran
    envFault              \* the exception was not determined by the arguments

biggifyVars == <<caller, pc, image_bytes, rows, stretch_factor, output_scale_factor,
                 original_img, current_width, current_height, r, cropped_strip,
                 cropped_images, boxes, result, ops, msg, raised, envFault>>

VARIABLES
    mpc,                  \* position inside merge_images
    image_bytes_list, images, merged_width, merged_height, merged_img,
    current_height_offset,
    pastes,               \* paste calls performed so far, in order
    merged,               \* the value returned by merge_images
    mraised,              \* the except clause of merge_images ran
    menvFault             \* that exception was not determined by the arguments

mergeVars == <<mpc, image_bytes_list, images, merged_width, merged_height, merged_img,
               current_height_offset, pastes, merged, mraised, menvFault>>

VARIABLES
    hcmd,                 \* the slash command being handled
    hpc,                  \* position inside the handler
    image, cmd_rows, cmd_stretch_factor,      \* arguments of /biggify
    attached_images, valid_images,            \* locals of /mergebiggify
    downloaded,           \* bytes read from the attachments so far
    download_failed,      \* an attachment read raised
    processed_images, i,
    channel,              \* files sent to the channel, in order
    followups             \* ephemeral follow-up messages, in order

botVars == <<hcmd, hpc, image, cmd_rows, cmd_stretch_factor, attached_images,
             valid_images, downloaded, download_failed, processed_images, i,
             channel, followups>>

vars == <<biggifyVars, mergeVars, botVars>>

\* ------------------------------------------------ biggify_image: helpers
ValidStretchExclusive(f) == ~Leq(f, StretchMin) /\ ~Leq(StretchMax, f)

ValidStretch(f) == Leq(StretchMin, f) /\ Leq(f, StretchMax)

ValidScale(f) == Leq(ScaleMin, f) /\ Leq(f, ScaleMax)

FirstFailingCheckNoScale(n, sf, osf) ==
    IF n <= 0 THEN "rows"
    ELSE IF ~ValidStretch(sf) THEN "stretch"
    ELSE "none"

\* the three checks in source order
FirstFailingCheck(n, sf, osf) ==
    IF n <= 0 THEN "rows"
    ELSE IF ~ValidStretch(sf) THEN "stretch"
    ELSE IF ~ValidScale(osf) THEN "scale"
    ELSE "none"

\* top = int(r * part_height), part_height = current_height / rows
BoxTop(k, h, n) == (k * h) \div n

BoxBottomIntDiv(k, h, n) == (k + 1) * (h \div n)

\* bottom = int((r + 1) * part_height), forced to current_height on the last strip
BoxBottom(k, h, n) == IF k = n - 1 THEN h ELSE ((k + 1) * h) \div n

\* Image.resize: returns a copy when the size is unchanged, otherwise the
\* resampler rejects a target with a dimension below 1
ResizeOk(ow, oh, nw, nh) == (ow = nw /\ oh = nh) \/ (nw >= 1 /\ nh >= 1)

\* Image.save: the encoders reject an empty image
SaveOk(w, h) == w >= 1 /\ h >= 1

ExceptResultPartial(partial) == partial

\* the except clause returns [] whatever was accumulated
ExceptResult(partial) == <<>>

SaveFormat(fmt) == IF fmt # "NONE" THEN fmt ELSE "PNG"

\* would the library call at position p succeed on the current arguments
CallOk(p) ==
    CASE p = "open" -> image_bytes.ok
      [] p = "resize" -> ResizeOk(current_width, current_height,
                                  Trunc(current_width, stretch_factor), current_height)
      [] p = "crop" -> BoxTop(r, current_height, rows) <= BoxBottom(r, current_height, rows)
      [] p = "rescale" -> ResizeOk(cropped_strip.width, cropped_strip.height,
                                   Trunc(cropped_strip.width, output_scale_factor),
                                   Trunc(cropped_strip.height, output_scale_factor))
      [] p = "save" -> SaveOk(cropped_strip.width, cropped_strip.height)
      [] OTHER -> TRUE

LibraryCalls == {"open", "resize", "crop", "rescale", "save"}

\* --------------------------------------------------- biggify_image: entry
EnterBiggify(who, bytes, n, sf, osf) ==
    /\ caller = who
    /\ pc = "open"
    /\ image_bytes = bytes
    /\ rows = n
    /\ stretch_factor = sf
    /\ output_scale_factor = osf
    /\ original_img = NoImage
    /\ current_width = 0
    /\ current_height = 0
    /\ r = 0
    /\ cropped_strip = NoStrip
    /\ cropped_images = <<>>
    /\ boxes = <<>>
    /\ result = <<>>
    /\ ops = <<>>
    /\ msg = "none"
    /\ raised = FALSE
    /\ envFault = FALSE

\* biggify_image has not been called
BiggifyIdle ==
    /\ caller = "direct"
    /\ pc = "idle"
    /\ image_bytes = NoImage
    /\ rows = 0
    /\ stretch_factor = Factor(1, 1)
    /\ output_scale_factor = Factor(1, 1)
    /\ original_img = NoImage
    /\ current_width = 0
    /\ current_height = 0
    /\ r = 0
    /\ cropped_strip = NoStrip
    /\ cropped_images = <<>>
    /\ boxes = <<>>
    /\ result = <<>>
    /\ ops = <<>>
    /\ msg = "none"
    /\ raised = FALSE
    /\ envFault = FALSE

\* -------------------------------------------------- biggify_image: steps
Open ==
    /\ pc = "open"
    /\ CallOk("open")
    /\ original_img' = image_bytes
    /\ ops' = Append(ops, "open")
    /\ pc' = "validate"
    /\ UNCHANGED <<caller, image_bytes, rows, stretch_factor, output_scale_factor,
                   current_width, current_height, r, cropped_strip, cropped_images,
                   boxes, result, msg, raised, envFault>>
    /\ UNCHANGED <<mergeVars, botVars>>

Validate ==
    /\ pc = "validate"
    /\ LET failing == FirstFailingCheck(rows, stretch_factor, output_scale_factor)
       IN  IF failing # "none"
           THEN /\ msg' = failing
                /\ result' = <<>>
                /\ pc' = "done"
                /\ UNCHANGED <<current_width, current_height>>
           ELSE /\ current_width' = original_img.width
                /\ current_height' = original_img.height
                /\ pc' = "resize"
                /\ UNCHANGED <<msg, result>>
    /\ UNCHANGED <<caller, image_bytes, rows, stretch_factor, output_scale_factor,
                   original_img, r, cropped_strip, cropped_images, boxes, ops,
                   raised, envFault>>
    /\ UNCHANGED <<mergeVars, botVars>>

Stretch ==
    /\ pc = "resize"
    /\ CallOk("resize")
    /\ current_width' = Trunc(current_width, stretch_factor)
    /\ ops' = Append(ops, "resize")
    /\ cropped_images' = <<>>
    /\ r' = 0
    /\ pc' = "crop"
    /\ UNCHANGED <<caller, image_bytes, rows, stretch_factor, output_scale_factor,
                   original_img, current_height, cropped_strip, boxes, result,
                   msg, raised, envFault>>
    /\ UNCHANGED <<mergeVars, botVars>>

Crop ==
    /\ pc = "crop"
    /\ CallOk("crop")
    /\ LET top == BoxTop(r, current_height, rows)
           bottom == BoxBottom(r, current_height, rows)
       IN  /\ cropped_strip' = [width |-> current_width - 0, height |-> bottom - top,
                                top |-> top, bottom |-> bottom]
           /\ boxes' = Append(boxes, [left |-> 0, top |-> top,
                                      right |-> current_width, bottom |-> bottom])
    /\ ops' = Append(ops, "crop")
    /\ pc' = IF ~IsOne(output_scale_factor) THEN "rescale" ELSE "save"
    /\ UNCHANGED <<caller, image_bytes, rows, stretch_factor, output_scale_factor,
                   original_img, current_width, current_height, r, cropped_images,
                   result, msg, raised, envFault>>
    /\ UNCHANGED <<mergeVars, botVars>>

Rescale ==
    /\ pc = "rescale"
    /\ CallOk("rescale")
    /\ cropped_strip' = [cropped_strip EXCEPT
                            !.width = Trunc(cropped_strip.width, output_scale_factor),
                            !.height = Trunc(cropped_strip.height, output_scale_factor)]
    /\ ops' = Append(ops, "rescale")
    /\ pc' = "save"
    /\ UNCHANGED <<caller, image_bytes, rows, stretch_factor, output_scale_factor,
                   original_img, current_width, current_height, r, cropped_images,
                   boxes, result, msg, raised, envFault>>
    /\ UNCHANGED <<mergeVars, botVars>>

Save ==
    /\ pc = "save"
    /\ CallOk("save")
    /\ cropped_images' = Append(cropped_images,
            [width |-> cropped_strip.width, height |-> cropped_strip.height,
             format |-> SaveFormat(original_img.format), strip |-> r,
             box |-> boxes[Len(boxes)]])
    /\ ops' = Append(ops, "save")
    /\ r' = r + 1
    /\ pc' = IF r + 1 < rows THEN "crop" ELSE "return"
    /\ UNCHANGED <<caller, image_bytes, rows, stretch_factor, output_scale_factor,
                   original_img, current_width, current_height, cropped_strip,
                   boxes, result, msg, raised, envFault>>
    /\ UNCHANGED <<mergeVars, botVars>>

Return ==
    /\ pc = "return"
    /\ result' = cropped_images
    /\ pc' = "done"
    /\ UNCHANGED <<caller, image_bytes, rows, stretch_factor, output_scale_factor,
                   original_img, current_width, current_height, r, cropped_strip,
                   cropped_images, boxes, ops, msg, raised, envFault>>
    /\ UNCHANGED <<mergeVars, botVars>>

\* except Exception: any library call may raise, whether or not its arguments
\* are acceptable (MemoryError, truncated data, codec errors)
Except ==
    /\ pc \in LibraryCalls
    /\ ops' = Append(ops, pc)
    /\ raised' = TRUE
    /\ envFault' = CallOk(pc)
    /\ msg' = "exception"
    /\ result' = ExceptResult(cropped_images)
    /\ pc' = "done"
    /\ UNCHANGED <<caller, image_bytes, rows, stretch_factor, output_scale_factor,
                   original_img, current_width, current_height, r, cropped_strip,
                   cropped_images, boxes>>
    /\ UNCHANGED <<mergeVars, botVars>>



\* --------------------------------------------------- merge_images: helpers
MergeWidths == 1..MaxDim
MergeHeights == {1, 50, 60}

MergeInputs ==
    {Undecodable} \cup {Decodable(w, h, "PNG") : w \in MergeWidths, h \in MergeHeights}

RECURSIVE SeqsUpTo(_, _)
SeqsUpTo(S, n) ==
    IF n = 0 THEN {<<>>}
    ELSE LET shorter == SeqsUpTo(S, n - 1)
         IN  shorter \cup {Append(q, x) : q \in {t \in shorter : Len(t) = n - 1}, x \in S}

NoCanvas == [width |-> 0, height |-> 0, mode |-> "NONE"]

Pending == [kind |-> "pending", width |-> 0, height |-> 0, format |-> "NONE"]

NoneResult == [kind |-> "None", width |-> 0, height |-> 0, format |-> "NONE"]

Buffer(w, h, f) == [kind |-> "buffer", width |-> w, height |-> h, format |-> f]

\* merged_width = images[0].width
MergedWidth(imgs) == imgs[1].width

RECURSIVE SumImageHeights(_)
\* sum(img.height for img in images)
SumImageHeights(imgs) ==
    IF imgs = <<>> THEN 0 ELSE Head(imgs).height + SumImageHeights(Tail(imgs))

NextOffsetByWidth(off, img) == off + img.width

\* current_height_offset += img.height
NextOffset(off, img) == off + img.height

MergeExceptResultPartial(canvas) == Buffer(canvas.width, canvas.height, "PNG")

\* the except clause of merge_images returns None
MergeExceptResult(canvas) == NoneResult

MergeCallOk(p) ==
    CASE p = "open" -> image_bytes_list[Len(images) + 1].ok
      [] p = "save" -> SaveOk(merged_img.width, merged_img.height)
      [] OTHER -> TRUE

MergeLibraryCalls == {"open", "new", "paste", "save"}

\* ----------------------------------------------------- merge_images: entry
EnterMerge(list) ==
    /\ mpc = "check"
    /\ image_bytes_list = list
    /\ images = <<>>
    /\ merged_width = 0
    /\ merged_height = 0
    /\ merged_img = NoCanvas
    /\ current_height_offset = 0
    /\ pastes = <<>>
    /\ merged = Pending
    /\ mraised = FALSE
    /\ menvFault = FALSE

\* merge_images has not been called
MergeIdle ==
    /\ mpc = "idle"
    /\ image_bytes_list = <<>>
    /\ images = <<>>
    /\ merged_width = 0
    /\ merged_height = 0
    /\ merged_img = NoCanvas
    /\ current_height_offset = 0
    /\ pastes = <<>>
    /\ merged = Pending
    /\ mraised = FALSE
    /\ menvFault = FALSE

\* ----------------------------------------------------- merge_images: steps
MergeCheckEmpty ==
    /\ mpc = "check"
    /\ IF image_bytes_list = <<>>
       THEN /\ merged' = NoneResult
            /\ mpc' = "done"
       ELSE /\ mpc' = "open"
            /\ UNCHANGED merged
    /\ UNCHANGED <<image_bytes_list, images, merged_width, merged_height, merged_img,
                   current_height_offset, pastes, mraised, menvFault>>
    /\ UNCHANGED <<biggifyVars, botVars>>

MergeOpen ==
    /\ mpc = "open"
    /\ MergeCallOk("open")
    /\ images' = Append(images, image_bytes_list[Len(images) + 1])
    /\ mpc' = IF Len(images) + 1 < Len(image_bytes_list) THEN "open" ELSE "new"
    /\ UNCHANGED <<image_bytes_list, merged_width, merged_height, merged_img,
                   current_height_offset, pastes, merged, mraised, menvFault>>
    /\ UNCHANGED <<biggifyVars, botVars>>

MergeNew ==
    /\ mpc = "new"
    /\ MergeCallOk("new")
    /\ merged_width' = MergedWidth(images)
    /\ merged_height' = SumImageHeights(images)
    /\ merged_img' = [width |-> MergedWidth(images),
                      height |-> SumImageHeights(images), mode |-> "RGB"]
    /\ current_height_offset' = 0
    /\ mpc' = "paste"
    /\ UNCHANGED <<image_bytes_list, images, pastes, merged, mraised, menvFault>>
    /\ UNCHANGED <<biggifyVars, botVars>>

MergePaste ==
    /\ mpc = "paste"
    /\ MergeCallOk("paste")
    /\ LET img == images[Len(pastes) + 1]
       IN  /\ pastes' = Append(pastes, [index |-> Len(pastes) + 1, x |-> 0,
                                        y |-> current_height_offset,
                                        width |-> img.width, height |-> img.height])
           /\ current_height_offset' = NextOffset(current_height_offset, img)
    /\ mpc' = IF Len(pastes) + 1 < Len(images) THEN "paste" ELSE "save"
    /\ UNCHANGED <<image_bytes_list, images, merged_width, merged_height, merged_img,
                   merged, mraised, menvFault>>
    /\ UNCHANGED <<biggifyVars, botVars>>

MergeSave ==
    /\ mpc = "save"
    /\ MergeCallOk("save")
    /\ merged' = Buffer(merged_img.width, merged_img.height, "PNG")
    /\ mpc' = "done"
    /\ UNCHANGED <<image_bytes_list, images, merged_width, merged_height, merged_img,
                   current_height_offset, pastes, mraised, menvFault>>
    /\ UNCHANGED <<biggifyVars, botVars>>

MergeExcept ==
    /\ mpc \in MergeLibraryCalls
    /\ mraised' = TRUE
    /\ menvFault' = MergeCallOk(mpc)
    /\ merged' = MergeExceptResult(merged_img)
    /\ mpc' = "done"
    /\ UNCHANGED <<image_bytes_list, images, merged_width, merged_height, merged_img,
                   current_height_offset, pastes>>
    /\ UNCHANGED <<biggifyVars, botVars>>


\* ------------------------------------------------------------ bot: inputs
MaxBotRows == 10
NumSlots == 10
MaxOdd == 1

DefaultOutputScaleFactor == Factor(2, 1)

Attachment(ct, bytes) == [present |-> TRUE, content_type |-> ct, bytes |-> bytes]

\* an optional parameter left at its default None
Absent == [present |-> FALSE, content_type |-> "none", bytes |-> Undecodable]

\* content_type.startswith('image/')
IsImageType(ct) == ct \in {"image/png", "image/jpeg"}

ContentTypes == {"none", "image/png", "text/plain"}

BotImages == {Undecodable, Decodable(2, 3, "PNG"), Decodable(100, 101, "JPEG")}

BotRowsInputs == 0..(MaxBotRows + 1)

GoodStrip == Attachment("image/png", Decodable(2, 1, "PNG"))

OddAttachments ==
    {Absent, Attachment("text/plain", Undecodable), Attachment("none", Undecodable),
     Attachment("image/png", Undecodable), Attachment("image/jpeg", Decodable(3, 2, "JPEG"))}

\* the ten parameters image1..image10: the first n supplied, at most MaxOdd of
\* them something other than a well-formed strip; image1 is required
AttachmentLists ==
    UNION { UNION { { [k \in 1..NumSlots |->
                          IF k > n THEN Absent
                          ELSE IF k \in odd THEN f[k] ELSE GoodStrip]
                      : f \in [odd -> OddAttachments] }
                    : odd \in {o \in SUBSET (1..n) : Cardinality(o) <= MaxOdd} }
            : n \in 1..NumSlots }

\* interaction.followup.send: the handlers never guard it, it is taken to deliver
Followup(kind, part) == [kind |-> kind, part |-> part]

BotIdle ==
    /\ hcmd = "none"
    /\ hpc = "idle"
    /\ image = Absent
    /\ cmd_rows = 0
    /\ cmd_stretch_factor = Factor(1, 1)
    /\ attached_images = <<>>
    /\ valid_images = <<>>
    /\ downloaded = <<>>
    /\ download_failed = FALSE
    /\ processed_images = <<>>
    /\ i = 0
    /\ channel = <<>>
    /\ followups = <<>>

\* --------------------------------------------------------- bot: /biggify
BotRowsOk(n) == 1 <= n /\ n <= MaxBotRows

BotStretchOk(f) == Leq(Factor(1, 1), f) /\ Leq(f, Factor(3, 1))

\* interaction.response.defer and the three input checks
BiggifyValidate ==
    /\ hcmd = "biggify"
    /\ hpc = "start"
    /\ IF image.content_type = "none"
       THEN \* None.startswith raises AttributeError, which leaves the handler
            /\ hpc' = "crashed"
            /\ UNCHANGED followups
       ELSE IF ~image.present \/ ~IsImageType(image.content_type)
       THEN /\ followups' = Append(followups, Followup("not_image", 0))
            /\ hpc' = "done"
       ELSE IF ~BotRowsOk(cmd_rows)
       THEN /\ followups' = Append(followups, Followup("rows_range", 0))
            /\ hpc' = "done"
       ELSE IF ~BotStretchOk(cmd_stretch_factor)
       THEN /\ followups' = Append(followups, Followup("stretch_range", 0))
            /\ hpc' = "done"
       ELSE /\ hpc' = "download"
            /\ UNCHANGED followups
    /\ UNCHANGED <<hcmd, image, cmd_rows, cmd_stretch_factor, attached_images,
                   valid_images, downloaded, download_failed, processed_images, i,
                   channel>>
    /\ UNCHANGED <<biggifyVars, mergeVars>>

BiggifyDownload ==
    /\ hcmd = "biggify"
    /\ hpc = "download"
    /\ downloaded' = <<image.bytes>>
    /\ hpc' = "call"
    /\ UNCHANGED <<hcmd, image, cmd_rows, cmd_stretch_factor, attached_images,
                   valid_images, download_failed, processed_images, i, channel,
                   followups>>
    /\ UNCHANGED <<biggifyVars, mergeVars>>

BiggifyDownloadFail ==
    /\ hcmd = "biggify"
    /\ hpc = "download"
    /\ download_failed' = TRUE
    /\ followups' = Append(followups, Followup("download_failed", 0))
    /\ hpc' = "done"
    /\ UNCHANGED <<hcmd, image, cmd_rows, cmd_stretch_factor, attached_images,
                   valid_images, downloaded, processed_images, i, channel>>
    /\ UNCHANGED <<biggifyVars, mergeVars>>

BiggifyCall ==
    /\ hcmd = "biggify"
    /\ hpc = "call"
    /\ caller' = "bot"
    /\ pc' = "open"
    /\ image_bytes' = downloaded[1]
    /\ rows' = cmd_rows
    /\ stretch_factor' = cmd_stretch_factor
    /\ output_scale_factor' = DefaultOutputScaleFactor
    /\ UNCHANGED <<original_img, current_width, current_height, r, cropped_strip,
                   cropped_images, boxes, result, ops, msg, raised, envFault>>
    /\ hpc' = "core"
    /\ UNCHANGED <<hcmd, image, cmd_rows, cmd_stretch_factor, attached_images,
                   valid_images, downloaded, download_failed, processed_images, i,
                   channel, followups>>
    /\ UNCHANGED mergeVars

BiggifyReturned ==
    /\ hcmd = "biggify"
    /\ hpc = "core"
    /\ pc = "done"
    /\ processed_images' = result
    /\ IF result = <<>>
       THEN /\ followups' = Append(followups, Followup("processing_error", 0))
            /\ hpc' = "done"
       ELSE /\ hpc' = "send"
            /\ UNCHANGED followups
    /\ i' = 0
    /\ UNCHANGED <<hcmd, image, cmd_rows, cmd_stretch_factor, attached_images,
                   valid_images, downloaded, download_failed, channel>>
    /\ UNCHANGED <<biggifyVars, mergeVars>>

AfterAttemptStop(done, n) == "final"

\* the for loop goes on to the next strip after a success and after a failure
AfterAttempt(done, n) == IF done < n THEN "send" ELSE "final"

BiggifySend ==
    /\ hcmd = "biggify"
    /\ hpc = "send"
    /\ channel' = Append(channel, [file |-> processed_images[i + 1], part |-> i + 1])
    /\ i' = i + 1
    /\ hpc' = AfterAttempt(i + 1, Len(processed_images))
    /\ UNCHANGED <<hcmd, image, cmd_rows, cmd_stretch_factor, attached_images,
                   valid_images, downloaded, download_failed, processed_images,
                   followups>>
    /\ UNCHANGED <<biggifyVars, mergeVars>>

BiggifySendFail ==
    /\ hcmd = "biggify"
    /\ hpc = "send"
    /\ followups' = Append(followups, Followup("part_failed", i + 1))
    /\ i' = i + 1
    /\ hpc' = AfterAttempt(i + 1, Len(processed_images))
    /\ UNCHANGED <<hcmd, image, cmd_rows, cmd_stretch_factor, attached_images,
                   valid_images, downloaded, download_failed, processed_images,
                   channel>>
    /\ UNCHANGED <<biggifyVars, mergeVars>>

BiggifyFinal ==
    /\ hcmd = "biggify"
    /\ hpc = "final"
    /\ followups' = Append(followups, Followup("complete", 0))
    /\ hpc' = "done"
    /\ UNCHANGED <<hcmd, image, cmd_rows, cmd_stretch_factor, attached_images,
                   valid_images, downloaded, download_failed, processed_images, i,
                   channel>>
    /\ UNCHANGED <<biggifyVars, mergeVars>>

\* ---------------------------------------------------- bot: /mergebiggify
IsValidImage(a) == a.present /\ a.content_type # "none" /\ IsImageType(a.content_type)

MergeCmdFilter ==
    /\ hcmd = "mergebiggify"
    /\ hpc = "start"
    /\ LET valid == SelectSeq(attached_images, IsValidImage)
       IN  /\ valid_images' = valid
           /\ IF valid = <<>>
              THEN /\ followups' = Append(followups, Followup("need_one", 0))
                   /\ hpc' = "done"
              ELSE IF Len(valid) < 2
              THEN /\ followups' = Append(followups, Followup("need_two", 0))
                   /\ hpc' = "done"
              ELSE /\ hpc' = "download"
                   /\ UNCHANGED followups
    /\ UNCHANGED <<hcmd, image, cmd_rows, cmd_stretch_factor, attached_images,
                   downloaded, download_failed, processed_images, i, channel>>
    /\ UNCHANGED <<biggifyVars, mergeVars>>

MergeCmdDownload ==
    /\ hcmd = "mergebiggify"
    /\ hpc = "download"
    /\ downloaded' = Append(downloaded, valid_images[Len(downloaded) + 1].bytes)
    /\ hpc' = IF Len(downloaded) + 1 < Len(valid_images) THEN "download" ELSE "call"
    /\ UNCHANGED <<hcmd, image, cmd_rows, cmd_stretch_factor, attached_images,
                   valid_images, download_failed, processed_images, i, channel,
                   followups>>
    /\ UNCHANGED <<biggifyVars, mergeVars>>

MergeCmdDownloadFail ==
    /\ hcmd = "mergebiggify"
    /\ hpc = "download"
    /\ download_failed' = TRUE
    /\ followups' = Append(followups, Followup("download_failed", 0))
    /\ hpc' = "done"
    /\ UNCHANGED <<hcmd, image, cmd_rows, cmd_stretch_factor, attached_images,
                   valid_images, downloaded, processed_images, i, channel>>
    /\ UNCHANGED <<biggifyVars, mergeVars>>

MergeCmdCall ==
    /\ hcmd = "mergebiggify"
    /\ hpc = "call"
    /\ mpc' = "check"
    /\ image_bytes_list' = downloaded
    /\ UNCHANGED <<images, merged_width, merged_height, merged_img,
                   current_height_offset, pastes, merged, mraised, menvFault>>
    /\ hpc' = "core"
    /\ UNCHANGED <<hcmd, image, cmd_rows, cmd_stretch_factor, attached_images,
                   valid_images, downloaded, download_failed, processed_images, i,
                   channel, followups>>
    /\ UNCHANGED biggifyVars

MergeCmdReturned ==
    /\ hcmd = "mergebiggify"
    /\ hpc = "core"
    /\ mpc = "done"
    /\ IF merged.kind = "buffer"
       THEN /\ hpc' = "send"
            /\ UNCHANGED followups
       ELSE /\ followups' = Append(followups, Followup("merge_error", 0))
            /\ hpc' = "done"
    /\ UNCHANGED <<hcmd, image, cmd_rows, cmd_stretch_factor, attached_images,
                   valid_images, downloaded, download_failed, processed_images, i,
                   channel>>
    /\ UNCHANGED <<biggifyVars, mergeVars>>

MergeCmdSend ==
    /\ hcmd = "mergebiggify"
    /\ hpc = "send"
    /\ channel' = Append(channel, [file |-> merged, part |-> 0])
    /\ followups' = Append(followups, Followup("merged", 0))
    /\ hpc' = "done"
    /\ UNCHANGED <<hcmd, image, cmd_rows, cmd_stretch_factor, attached_images,
                   valid_images, downloaded, download_failed, processed_images, i>>
    /\ UNCHANGED <<biggifyVars, mergeVars>>

MergeCmdSendFail ==
    /\ hcmd = "mergebiggify"
    /\ hpc = "send"
    /\ followups' = Append(followups, Followup("send_failed", 0))
    /\ hpc' = "done"
    /\ UNCHANGED <<hcmd, image, cmd_rows, cmd_stretch_factor, attached_images,
                   valid_images, downloaded, download_failed, processed_images, i,
                   channel>>
    /\ UNCHANGED <<biggifyVars, mergeVars>>

\* ------------------------------------------------------- specifications
\* a direct call of biggify_image
InitBiggify ==
    /\ \E bytes \in ImageInputs, n \in RowsInputs, sf \in StretchInputs, osf \in ScaleInputs :
          EnterBiggify("direct", bytes, n, sf, osf)
    /\ MergeIdle
    /\ BotIdle

NextBiggify ==
    \/ Open
    \/ Validate
    \/ Stretch
    \/ Crop
    \/ Rescale
    \/ Save
    \/ Return
    \/ Except

SpecBiggify == InitBiggify /\ [][NextBiggify]_vars

\* a direct call of merge_images
InitMerge ==
    /\ BiggifyIdle
    /\ \E list \in SeqsUpTo(MergeInputs, MaxMerge) : EnterMerge(list)
    /\ BotIdle

NextMerge ==
    \/ MergeCheckEmpty
    \/ MergeOpen
    \/ MergeNew
    \/ MergePaste
    \/ MergeSave
    \/ MergeExcept

SpecMerge == InitMerge /\ [][NextMerge]_vars

\* one slash command handled by the bot, together with the core call it makes
InitBot ==
    /\ BiggifyIdle
    /\ MergeIdle
    /\ hpc = "start"
    /\ downloaded = <<>>
    /\ download_failed = FALSE
    /\ processed_images = <<>>
    /\ i = 0
    /\ channel = <<>>
    /\ followups = <<>>
    /\ valid_images = <<>>
    /\ \/ /\ hcmd = "biggify"
          /\ \E ct \in ContentTypes, bytes \in BotImages : image = Attachment(ct, bytes)
          /\ cmd_rows \in BotRowsInputs
          /\ cmd_stretch_factor \in StretchInputs
          /\ attached_images = <<>>
       \/ /\ hcmd = "mergebiggify"
          /\ image = Absent
          /\ cmd_rows = 0
          /\ cmd_stretch_factor = Factor(1, 1)
          /\ attached_images \in AttachmentLists

NextBot ==
    \/ BiggifyValidate
    \/ BiggifyDownload
    \/ BiggifyDownloadFail
    \/ BiggifyCall
    \/ Open
    \/ Validate
    \/ Stretch
    \/ Crop
    \/ Rescale
    \/ Save
    \/ Return
    \/ Except
    \/ BiggifyReturned
    \/ BiggifySend
    \/ BiggifySendFail
    \/ BiggifyFinal
    \/ MergeCmdFilter
    \/ MergeCmdDownload
    \/ MergeCmdDownloadFail
    \/ MergeCmdCall
    \/ MergeCheckEmpty
    \/ MergeOpen
    \/ MergeNew
    \/ MergePaste
    \/ MergeSave
    \/ MergeExcept
    \/ MergeCmdReturned
    \/ MergeCmdSend
    \/ MergeCmdSendFail

SpecBot == InitBot /\ [][NextBot]_vars

\* ------------------------------------------------ properties: biggify_image
RECURSIVE SumHeights(_)
SumHeights(bs) ==
    IF bs = <<>> THEN 0
    ELSE (Head(bs).bottom - Head(bs).top) + SumHeights(Tail(bs))

RowsAccepted == rows > 0

StretchAccepted ==
    /\ stretch_factor.num >= stretch_factor.den
    /\ stretch_factor.num <= 3 * stretch_factor.den

ScaleAccepted ==
    /\ 2 * output_scale_factor.num >= output_scale_factor.den
    /\ output_scale_factor.num <= 4 * output_scale_factor.den

ParamsAccepted == RowsAccepted /\ StretchAccepted /\ ScaleAccepted

\* C1: a call with rows > 0, factors inside their ranges and a decodable
\* image, in which no library call fails for a reason outside the arguments,
\* returns exactly `rows` buffers, each holding a non-empty image.
C1_ExactlyRowsBuffers ==
    (pc = "done" /\ image_bytes.ok /\ ParamsAccepted /\ ~envFault)
        => /\ Len(result) = rows
           /\ \A j \in 1..Len(result) : result[j].width >= 1 /\ result[j].height >= 1

\* C2: the crop boxes tile the stretched image in order: the first starts at
\* 0, each ends where the next starts, the last ends at the image height, no
\* box has negative height, the heights add up to the image height, and the
\* j-th returned buffer holds the j-th box from the top.
C2_StripsTile ==
    /\ \A j \in 1..Len(boxes) :
          /\ 0 <= boxes[j].top
          /\ boxes[j].top <= boxes[j].bottom
          /\ boxes[j].bottom <= current_height
    /\ Len(boxes) >= 1 => boxes[1].top = 0
    /\ \A j \in 1..(Len(boxes) - 1) : boxes[j].bottom = boxes[j + 1].top
    /\ Len(boxes) <= rows \/ boxes = <<>>
    /\ (boxes # <<>> /\ Len(boxes) = rows)
          => /\ boxes[rows].bottom = current_height
             /\ SumHeights(boxes) = current_height
    /\ \A j \in 1..Len(cropped_images) :
          /\ cropped_images[j].strip = j - 1
          /\ cropped_images[j].box = boxes[j]
    /\ (pc = "done" /\ result # <<>>) => result = cropped_images

C2_Witness ==
    /\ pc = "done"
    /\ current_height = 101
    /\ rows = 4
    /\ Len(result) = 4
    /\ [j \in 1..4 |-> result[j].box.bottom - result[j].box.top] = <<25, 25, 25, 26>>

\* C3: a call with rows <= 0 or a factor outside its range returns the empty
\* list; the range ends themselves (1.0, 3.0, 0.5, 4.0) pass validation.
C3_InvalidParamsEmpty ==
    pc = "done" =>
        /\ ~ParamsAccepted => result = <<>>
        /\ ( /\ rows > 0
             /\ stretch_factor \in {Factor(1, 1), Factor(3, 1)}
             /\ output_scale_factor \in {Factor(1, 2), Factor(4, 1)} )
              => msg \notin {"rows", "stretch", "scale"}

C3_Witness ==
    /\ pc = "done"
    /\ image_bytes.ok
    /\ rows > 0
    /\ stretch_factor = Factor(5, 1)
    /\ msg = "stretch"
    /\ result = <<>>

\* C4 as stated: a call with an invalid parameter never reaches the decode.
C4_ChecksBeforeDecode ==
    ~ParamsAccepted => \A j \in 1..Len(ops) : ops[j] # "open"

\* C4 amended: the decode comes first; a call with an invalid parameter
\* performs no library call besides the decode, returns the empty list, and
\* (when the decode succeeded) reports the first failing check in the order
\* rows, stretchFactor, outputScaleFactor.
C4_ChecksBeforeTransform ==
    ~ParamsAccepted =>
        /\ \A j \in 1..Len(ops) : ops[j] = "open"
        /\ pc \in {"open", "validate", "done"}
        /\ pc = "done" => result = <<>>
        /\ (pc = "done" /\ ~raised) =>
              msg = IF ~RowsAccepted THEN "rows"
                    ELSE IF ~StretchAccepted THEN "stretch"
                    ELSE "scale"

C4_Witness ==
    /\ pc = "done"
    /\ RowsAccepted
    /\ ~StretchAccepted
    /\ ~ScaleAccepted
    /\ ops = <<"open">>
    /\ msg = "stretch"
    /\ result = <<>>

\* C5: the call is all-or-nothing: it returns either no buffer or `rows`
\* buffers, and once the except clause has run it returns no buffer, whatever
\* number of strips had been appended before.
C5_AllOrNothing ==
    pc = "done" =>
        /\ Len(result) = 0 \/ Len(result) = rows
        /\ raised => result = <<>>

C5_Witness ==
    /\ pc = "done"
    /\ raised
    /\ Len(cropped_images) >= 1
    /\ Len(cropped_images) < rows
    /\ result = <<>>

\* the dimensions every buffer has after the optional rescale, given what
\* "multiplied by outputScaleFactor" means for the integer result
StripWidthsAre(stretched) ==
    \A j \in 1..Len(cropped_images) :
        /\ cropped_images[j].box.left = 0
        /\ cropped_images[j].box.right = stretched

\* C8 as stated: the stretched width is round(originalWidth * stretchFactor)
\* and a rescaled strip has exactly its cropped size times outputScaleFactor.
C8_RoundedWidth ==
    cropped_images # <<>> =>
        /\ current_height = original_img.height
        /\ StripWidthsAre(Round(original_img.width, stretch_factor))
        /\ \A j \in 1..Len(cropped_images) :
              LET b == cropped_images[j]
                  w == b.box.right - b.box.left
                  h == b.box.bottom - b.box.top
              IN  IF IsOne(output_scale_factor)
                  THEN b.width = w /\ b.height = h
                  ELSE /\ b.width * output_scale_factor.den = w * output_scale_factor.num
                       /\ b.height * output_scale_factor.den = h * output_scale_factor.num

\* C8 amended: the stretched width is originalWidth * stretchFactor truncated
\* to an integer, the height is unchanged, every strip spans that width, and
\* a rescaled strip has its cropped width and height times outputScaleFactor,
\* each truncated to an integer; with outputScaleFactor = 1.0 the strip keeps
\* its cropped size.
C8_TruncatedWidth ==
    cropped_images # <<>> =>
        /\ current_height = original_img.height
        /\ current_width * stretch_factor.den <= original_img.width * stretch_factor.num
        /\ (current_width + 1) * stretch_factor.den > original_img.width * stretch_factor.num
        /\ StripWidthsAre(current_width)
        /\ \A j \in 1..Len(cropped_images) :
              LET b == cropped_images[j]
                  w == b.box.right - b.box.left
                  h == b.box.bottom - b.box.top
                  n == output_scale_factor.num
                  d == output_scale_factor.den
              IN  IF IsOne(output_scale_factor)
                  THEN b.width = w /\ b.height = h
                  ELSE /\ b.width * d <= w * n /\ (b.width + 1) * d > w * n
                       /\ b.height * d <= h * n /\ (b.height + 1) * d > h * n

C8_Witness ==
    /\ pc = "done"
    /\ original_img.width = 100
    /\ stretch_factor = Factor(3, 2)
    /\ output_scale_factor = Factor(2, 1)
    /\ result # <<>>
    /\ \A j \in 1..Len(result) : result[j].box.right = 150 /\ result[j].width = 300

\* ------------------------------------------------- properties: merge_images
RECURSIVE PrefixHeight(_, _)
PrefixHeight(list, n) ==
    IF n = 0 THEN 0 ELSE PrefixHeight(list, n - 1) + list[n].height

AllDecodable(list) == \A j \in 1..Len(list) : list[j].ok

\* C6: for a non-empty list of decodable rasters of any widths, when no
\* library call fails for a reason outside the arguments, merge_images
\* returns a buffer as wide as the first raster and as high as the sum of all
\* heights; the j-th raster is pasted at x = 0 and y = the sum of the heights
\* before it, so the pasted row ranges follow one another and end at the
\* canvas height.
C6_MergeStacks ==
    /\ \A j \in 1..Len(pastes) :
          /\ pastes[j].index = j
          /\ pastes[j].x = 0
          /\ pastes[j].y = PrefixHeight(image_bytes_list, j - 1)
          /\ pastes[j].width = image_bytes_list[j].width
          /\ pastes[j].height = image_bytes_list[j].height
    /\ \A j \in 1..(Len(pastes) - 1) : pastes[j].y + pastes[j].height = pastes[j + 1].y
    /\ (mpc = "done" /\ image_bytes_list # <<>> /\ AllDecodable(image_bytes_list)
            /\ ~menvFault)
          => /\ merged.kind = "buffer"
             /\ merged.width = image_bytes_list[1].width
             /\ merged.height = PrefixHeight(image_bytes_list, Len(image_bytes_list))
             /\ Len(pastes) = Len(image_bytes_list)
             /\ pastes[Len(pastes)].y + pastes[Len(pastes)].height = merged.height

C6_Witness ==
    /\ mpc = "done"
    /\ Len(image_bytes_list) = 2
    /\ image_bytes_list[1].height = 50
    /\ image_bytes_list[2].height = 60
    /\ image_bytes_list[1].width # image_bytes_list[2].width
    /\ merged.kind = "buffer"
    /\ merged.height = 110
    /\ Len(pastes) = 2
    /\ pastes[1].y = 0
    /\ pastes[2].y = 50

\* C7: merge_images returns None for the empty list and whenever some
\* element, at any position, does not decode; once its except clause has run
\* it returns None and never a buffer built from the other elements.
C7_MergeFailureSignal ==
    mpc = "done" =>
        /\ merged.kind \in {"None", "buffer"}
        /\ (image_bytes_list = <<>> \/ ~AllDecodable(image_bytes_list))
              => merged = NoneResult
        /\ mraised => merged = NoneResult

C7_Witness ==
    /\ mpc = "done"
    /\ Len(image_bytes_list) >= 2
    /\ image_bytes_list[1].ok
    /\ ~image_bytes_list[Len(image_bytes_list)].ok
    /\ Len(images) >= 1
    /\ merged = NoneResult

\* ------------------------------------------------------- properties: bot
RejectedOrFailed ==
    \/ download_failed
    \/ /\ hcmd = "biggify"
       /\ \/ ~(image.content_type \in {"image/png", "image/jpeg"})
          \/ cmd_rows < 1
          \/ cmd_rows > 10
          \/ cmd_stretch_factor.num < cmd_stretch_factor.den
          \/ cmd_stretch_factor.num > 3 * cmd_stretch_factor.den
    \/ /\ hcmd = "mergebiggify"
       /\ Cardinality({j \in 1..Len(attached_images) :
                          /\ attached_images[j].present
                          /\ attached_images[j].content_type \in {"image/png", "image/jpeg"}}) < 2

\* C9: the handlers call the core only inside their bounds: biggify_image
\* only with 1 <= rows <= 10, 1.0 <= stretch_factor <= 3.0 and an image
\* attachment; merge_images only with the bytes of 2 to 10 image attachments,
\* all downloaded; and a rejected input or a failed download ends the handler
\* without a core call and with an ephemeral follow-up.
C9_BotEnforcesBounds ==
    /\ (caller = "bot" /\ pc # "idle")
          => /\ hcmd = "biggify"
             /\ 1 <= rows /\ rows <= 10
             /\ StretchAccepted
             /\ image.content_type \in {"image/png", "image/jpeg"}
             /\ ~download_failed
    /\ mpc # "idle"
          => /\ hcmd = "mergebiggify"
             /\ 2 <= Len(image_bytes_list) /\ Len(image_bytes_list) <= 10
             /\ Len(image_bytes_list) = Len(valid_images)
             /\ \A j \in 1..Len(valid_images) :
                   /\ valid_images[j].content_type \in {"image/png", "image/jpeg"}
                   /\ image_bytes_list[j] = valid_images[j].bytes
             /\ ~download_failed
    /\ (hpc \in {"done", "crashed"} /\ RejectedOrFailed)
          => /\ pc = "idle"
             /\ mpc = "idle"
             /\ followups # <<>>

====
